---------------------------- MODULE Spec2Model ----------------------------
(***************************************************************************)
(* Intent classifier: the browser client (src/src/App.tsx) and the three   *)
(* versions of the serverless relay (src/api/classify.ts and the two       *)
(* handlers of src/api/classify.js).                                       *)
(*                                                                         *)
(* Text.  A JavaScript string is modelled as a sequence of atoms.  An atom *)
(* is a single character ("{", "}", a quote, a backslash, "$", "&", a      *)
(* white-space character, a letter) or an opaque run of ordinary           *)
(* characters that none of the modelled functions looks into (a word such  *)
(* as "intent", a numeric literal such as "0.9", the fixed wording of a    *)
(* message).  All functions below work atom by atom, as the code works     *)
(* character by character.                                                 *)
(***************************************************************************)
EXTENDS Integers, Sequences, FiniteSets, TLC

VARIABLES
  \* ---- client (App.tsx, IntentClassifierApp) ----
  config,          \* useState<AppConfig>: [apiKey, context, systemPrompt]
  singleUtterance, \* useState('')
  results,         \* useState<ClassificationResult[]>: the result history
  loading,         \* useState(false)
  uploadedData,    \* useState<string[]>
  batchProgress,   \* useState({current, total})
  hasClaude,       \* window.claude && window.claude.complete
  pc,              \* position of the one running async handler
  closure,         \* the state the running handler's render captured
  i,               \* handleBatchClassification: loop index (0-based)
  batchResults,    \* handleBatchClassification: const batchResults
  outstanding,     \* the round trips in flight: complete() calls and POSTs
  \* ---- relay (api/classify) ----
  variant,         \* which handler is deployed
  envKey,          \* process.env.CLAUDE_API_KEY
  req,             \* the request being handled
  rpc,             \* position of the handler
  resHeaders,      \* headers set on res so far
  responses,       \* responses sent for req, in order
  upstream,        \* bodies POSTed to api.anthropic.com for req, in order
  fetched,         \* the settled upstream fetch the handler holds
  \* ---- pure functions applied to drawn inputs ----
  arg,             \* the input drawn by Init
  ret              \* the function's result, once applied

clientVars == <<config, singleUtterance, results, loading, uploadedData,
                batchProgress, hasClaude, pc, closure, i, batchResults,
                outstanding>>
relayVars == <<variant, envKey, req, rpc, resHeaders, responses, upstream, fetched>>
pureVars == <<arg, ret>>
vars == <<clientVars, relayVars, pureVars>>

None == [none |-> TRUE]

\* F(x) with x evaluated once (JavaScript evaluates a const initialiser once)
With(x, F(_)) == CHOOSE y \in {F(v) : v \in {x}} : TRUE

-----------------------------------------------------------------------------
(* String primitives *)

\* s.startsWith(p, at-1): p occurs in s at 1-based position at
OccursAt(s, p, at) ==
  /\ at >= 1
  /\ at + Len(p) - 1 <= Len(s)
  /\ \A k \in 1..Len(p) : s[at + k - 1] = p[k]

\* s.includes(p)
Includes(s, p) == \E at \in 1..(Len(s) + 1) : OccursAt(s, p, at)

\* s.endsWith(p)
EndsWith(s, p) == Len(p) <= Len(s) /\ OccursAt(s, p, Len(s) - Len(p) + 1)

\* the white space String.prototype.trim strips and JSON skips
WhiteSpace == {" ", "\n", "\r", "\t"}

RECURSIVE TrimStart(_)
TrimStart(s) ==
  IF s # <<>> /\ Head(s) \in WhiteSpace THEN TrimStart(Tail(s)) ELSE s

RECURSIVE TrimEnd(_)
TrimEnd(s) ==
  IF s # <<>> /\ s[Len(s)] \in WhiteSpace
  THEN TrimEnd(SubSeq(s, 1, Len(s) - 1)) ELSE s

\* s.trim()
Trim(s) == TrimEnd(TrimStart(s))

\* s.split(sep) for a one-character separator: never empty, keeps empty pieces
RECURSIVE SplitFrom(_, _, _)
SplitFrom(s, sep, cur) ==
  IF s = <<>> THEN <<cur>>
  ELSE IF Head(s) = sep THEN <<cur>> \o SplitFrom(Tail(s), sep, <<>>)
  ELSE SplitFrom(Tail(s), sep, Append(cur, Head(s)))

Split(s, sep) == SplitFrom(s, sep, <<>>)

UpperCase == <<"A","B","C","D","E","F","G","H","I","J","K","L","M",
               "N","O","P","Q","R","S","T","U","V","W","X","Y","Z">>
LowerCase == <<"a","b","c","d","e","f","g","h","i","j","k","l","m",
               "n","o","p","q","r","s","t","u","v","w","x","y","z">>

LowerAtom(a) ==
  IF \E k \in 1..26 : UpperCase[k] = a
  THEN LowerCase[CHOOSE k \in 1..26 : UpperCase[k] = a]
  ELSE a

\* s.toLowerCase()
ToLowerCase(s) == [k \in 1..Len(s) |-> LowerAtom(s[k])]

\* arr.filter(line => line) on an array of strings
RECURSIVE FilterNonEmpty(_)
FilterNonEmpty(ls) ==
  IF ls = <<>> THEN <<>>
  ELSE IF Head(ls) = <<>> THEN FilterNonEmpty(Tail(ls))
  ELSE <<Head(ls)>> \o FilterNonEmpty(Tail(ls))

-----------------------------------------------------------------------------
(* Prompt construction: App.tsx lines 56-59 *)

\* the source text of the regular expression /{CONTEXT}/g
PLACEHOLDER == <<"{", "CONTEXT", "}">>

\* DEFAULT_SYSTEM_PROMPT, its wording between the special characters kept
\* as opaque runs
DEFAULT_SYSTEM_PROMPT ==
  <<"You are an expert intent classifier. Analyze the following utterance in the context of ",
    "{", "CONTEXT", "}",
    " and classify it into the most appropriate intent category.",
    "\n", "\n",
    "If no existing category fits well, suggest a new intent category that best describes the user's intention.",
    "\n", "\n", "Context: ", "{", "CONTEXT", "}", "\n", "\n",
    "Return your response as a valid JSON object in this exact format:", "\n",
    "{", "\n", " ", " ", "\"", "intent", "\"", ":", " ", "\"", "category_name", "\"", ",", "\n",
    " ", " ", "\"", "confidence", "\"", ":", " ", "0.95", ",", "\n",
    " ", " ", "\"", "reasoning", "\"", ":", " ", "\"", "brief explanation of classification", "\"", "\n",
    "}", "\n", "\n",
    "IMPORTANT: Return ONLY the JSON object, no additional text.">>

\* GetSubstitution (ECMA-262) for a pattern without capture groups: in the
\* replacement string "$$" stands for "$", "$&" for the match, "$`" for the
\* text before the match and "$'" for the text after it; anything else is
\* literal
RECURSIVE GetSubstitution(_, _, _, _)
GetSubstitution(matched, str, position, replacement) ==
  IF replacement = <<>> THEN <<>>
  ELSE IF Head(replacement) = "$" /\ Len(replacement) >= 2
  THEN LET c == replacement[2]
           rest == SubSeq(replacement, 3, Len(replacement))
       IN CASE c = "$" -> <<"$">> \o GetSubstitution(matched, str, position, rest)
            [] c = "&" -> matched \o GetSubstitution(matched, str, position, rest)
            [] c = "`" -> SubSeq(str, 1, position - 1)
                          \o GetSubstitution(matched, str, position, rest)
            [] c = "'" -> SubSeq(str, position + Len(matched), Len(str))
                          \o GetSubstitution(matched, str, position, rest)
            [] OTHER -> <<"$">> \o GetSubstitution(matched, str, position, Tail(replacement))
  ELSE <<Head(replacement)>>
       \o GetSubstitution(matched, str, position, Tail(replacement))

\* str.replace(/pattern/g, replacement) for a literal pattern: the matches
\* are found left to right in str, never in what was substituted
RECURSIVE ReplaceFrom(_, _, _, _)
ReplaceFrom(str, pattern, replacement, at) ==
  IF at > Len(str) THEN <<>>
  ELSE IF OccursAt(str, pattern, at)
  THEN GetSubstitution(pattern, str, at, replacement)
       \o ReplaceFrom(str, pattern, replacement, at + Len(pattern))
  ELSE <<str[at]>> \o ReplaceFrom(str, pattern, replacement, at + 1)

ReplaceAll(str, pattern, replacement) == ReplaceFrom(str, pattern, replacement, 1)

\* const prompt = config.systemPrompt.replace(/{CONTEXT}/g, config.context)
SubstitutedPrompt(cfg) == ReplaceAll(cfg.systemPrompt, PLACEHOLDER, cfg.context)

\* const fullPrompt = `${prompt}\n\nUtterance to classify: "${utterance}"`
FullPrompt(cfg, utterance) ==
  SubstitutedPrompt(cfg)
    \o <<"\n", "\n", "Utterance to classify: ", "\"">> \o utterance \o <<"\"">>

-----------------------------------------------------------------------------
(* File ingestion: App.tsx lines 185-201, reader.onload *)

CSV_SUFFIX == <<".", "c", "s", "v">>
WORD_utterance == <<"u", "t", "t", "e", "r", "a", "n", "c", "e">>
WORD_text == <<"t", "e", "x", "t">>

\* content.split('\n').map(line => line.trim()).filter(line => line)
Lines(content) ==
  With(Split(content, "\n"), LAMBDA raw :
    FilterNonEmpty([k \in 1..Len(raw) |-> Trim(raw[k])]))

\* a header test that compares in the letter case of the file
LooksLikeHeaderCaseSensitive(lines) ==
  /\ lines # <<>>
  /\ \/ Includes(lines[1], WORD_utterance)
     \/ Includes(lines[1], WORD_text)

\* lines[0]?.toLowerCase().includes('utterance') || ...includes('text')
LooksLikeHeader(lines) ==
  /\ lines # <<>>
  /\ \/ Includes(ToLowerCase(lines[1]), WORD_utterance)
     \/ Includes(ToLowerCase(lines[1]), WORD_text)

\* the value reader.onload passes to setUploadedData
ParseUpload(fileName, content) ==
  With(Lines(content), LAMBDA lines :
    IF EndsWith(fileName, CSV_SUFFIX)
    THEN IF LooksLikeHeader(lines) THEN Tail(lines) ELSE lines
    ELSE lines)

-----------------------------------------------------------------------------
(* JavaScript values and JSON.parse *)

\* A value: its type tag t and its text s (a string's characters, a number's
\* literal, the source text of an object or array; empty otherwise)
Val(t, s) == [t |-> t, s |-> s]
Str(s) == Val("string", s)
Num(a) == Val("number", <<a>>)
Undefined == Val("undefined", <<>>)

\* the numeric literals that occur in the modelled texts, each one atom
NumberLiterals == {"0", "0.5", "0.9", "0.95", "1"}
KeywordLiterals == {"true", "false", "null"}

\* ToBoolean
Truthy(v) ==
  CASE v.t = "string" -> v.s # <<>>
    [] v.t = "number" -> v.s # <<"0">>
    [] v.t \in {"object", "array", "true"} -> TRUE
    [] OTHER -> FALSE

\* a || b
OrElse(a, b) == IF Truthy(a) THEN a ELSE b

Failed == [ok |-> FALSE, next |-> 0, val |-> Undefined, members |-> <<>>]
Parsed(next, val) == [ok |-> TRUE, next |-> next, val |-> val, members |-> <<>>]

RECURSIVE SkipWs(_, _)
SkipWs(s, at) ==
  IF at <= Len(s) /\ s[at] \in WhiteSpace THEN SkipWs(s, at + 1) ELSE at

\* the character an escape sequence \c stands for (\b, \f and \uXXXX do not
\* occur in the modelled texts)
Unescape(c) ==
  CASE c = "n" -> "\n" [] c = "r" -> "\r" [] c = "t" -> "\t" [] OTHER -> c

\* a JSON string, from the atom after its opening quote
RECURSIVE ScanString(_, _, _)
ScanString(s, at, acc) ==
  IF at > Len(s) THEN Failed
  ELSE IF s[at] = "\"" THEN Parsed(at + 1, Str(acc))
  ELSE IF s[at] = "\\"
  THEN IF at + 1 <= Len(s) /\ s[at + 1] \in {"\"", "\\", "/", "n", "r", "t"}
       THEN ScanString(s, at + 2, Append(acc, Unescape(s[at + 1])))
       ELSE Failed
  ELSE IF s[at] \in {"\n", "\r", "\t"} THEN Failed
  ELSE ScanString(s, at + 1, Append(acc, s[at]))

RECURSIVE ParseValue(_, _)
RECURSIVE ParseMembers(_, _, _)
RECURSIVE ParseElements(_, _)

\* a member's value and what follows it: "," and the next member, or "}"
MemberValue(s, key, acc, v) ==
  IF ~v.ok THEN Failed
  ELSE With(SkipWs(s, v.next), LAMBDA m :
         IF m > Len(s) THEN Failed
         ELSE IF s[m] = ","
         THEN ParseMembers(s, m + 1, Append(acc, [k |-> key.val.s, v |-> v.val]))
         ELSE IF s[m] = "}"
         THEN [ok |-> TRUE, next |-> m + 1, val |-> Undefined,
               members |-> Append(acc, [k |-> key.val.s, v |-> v.val])]
         ELSE Failed)

\* a member from its key on: the ":" and the value
MemberAfterKey(s, key, acc) ==
  IF ~key.ok THEN Failed
  ELSE With(SkipWs(s, key.next), LAMBDA c :
         IF c > Len(s) \/ s[c] # ":" THEN Failed
         ELSE With(ParseValue(s, c + 1), LAMBDA v : MemberValue(s, key, acc, v)))

\* the members of an object, from the first atom after "{" or ","
ParseMembers(s, at, acc) ==
  With(SkipWs(s, at), LAMBDA j :
    IF j > Len(s) \/ s[j] # "\"" THEN Failed
    ELSE With(ScanString(s, j + 1, <<>>), LAMBDA key : MemberAfterKey(s, key, acc)))

\* the elements of an array, from the first atom after "[" or ","
ParseElements(s, at) ==
  With(ParseValue(s, at), LAMBDA v :
    IF ~v.ok THEN Failed
    ELSE With(SkipWs(s, v.next), LAMBDA m :
           IF m > Len(s) THEN Failed
           ELSE IF s[m] = "," THEN ParseElements(s, m + 1)
           ELSE IF s[m] = "]" THEN Parsed(m + 1, Undefined)
           ELSE Failed))

\* an object or array from its opening bracket at j: empty, or its contents
Bracketed(s, j, closing, tag, r) ==
  IF r.ok THEN Parsed(r.next, Val(tag, SubSeq(s, j, r.next - 1))) ELSE Failed

ParseAt(s, j) ==
  IF j > Len(s) THEN Failed
  ELSE CASE s[j] = "{" ->
              With(SkipWs(s, j + 1), LAMBDA k :
                With(IF k <= Len(s) /\ s[k] = "}" THEN Parsed(k + 1, Undefined)
                     ELSE ParseMembers(s, j + 1, <<>>),
                     LAMBDA r : Bracketed(s, j, "}", "object", r)))
         [] s[j] = "[" ->
              With(SkipWs(s, j + 1), LAMBDA k :
                With(IF k <= Len(s) /\ s[k] = "]" THEN Parsed(k + 1, Undefined)
                     ELSE ParseElements(s, j + 1),
                     LAMBDA r : Bracketed(s, j, "]", "array", r)))
         [] s[j] = "\"" -> ScanString(s, j + 1, <<>>)
         [] s[j] \in NumberLiterals -> Parsed(j + 1, Num(s[j]))
         [] s[j] \in KeywordLiterals -> Parsed(j + 1, Val(s[j], <<>>))
         [] OTHER -> Failed

ParseValue(s, at) == With(SkipWs(s, at), LAMBDA j : ParseAt(s, j))

\* JSON.parse(text): ok = FALSE stands for the SyntaxError it throws
JSONParse(text) ==
  With(ParseValue(text, 1), LAMBDA r :
    IF r.ok /\ SkipWs(text, r.next) > Len(text) THEN r ELSE Failed)

\* the members of a parsed object, in source order
Members(obj) ==
  IF obj.s[SkipWs(obj.s, 2)] = "}" THEN <<>>
  ELSE ParseMembers(obj.s, 2, <<>>).members

\* value.key: the last member of that name wins; a primitive other than
\* null has no such property
GetProperty(value, key) ==
  IF value.t # "object" THEN Undefined
  ELSE With(Members(value), LAMBDA ms :
         With({n \in 1..Len(ms) : ms[n].k = key}, LAMBDA hits :
           IF hits = {} THEN Undefined
           ELSE ms[CHOOSE n \in hits : \A o \in hits : o <= n].v))

-----------------------------------------------------------------------------
(* classifyWithClaude: App.tsx lines 55-129 *)

KEY_intent == <<"intent">>
KEY_confidence == <<"confidence">>
KEY_reasoning == <<"reasoning">>

\* the messages of the errors the code itself throws
MSG_NO_KEY ==
  <<"Claude API key not configured. Please add your API key in the configuration panel.">>
MSG_INVALID_FORMAT == <<"Invalid response format">>
MSG_UNKNOWN == <<"Unknown error occurred">>
\* the messages of the errors the engine throws; their wording is the engine's
MSG_SYNTAX_ERROR == <<"<SyntaxError.message>">>
MSG_TYPE_ERROR == <<"<TypeError.message>">>
MSG_FETCH_FAILED == <<"<fetch TypeError.message>">>

\* a catch block that reports the bare message
ErrorResultBareMessage(utterance, errorMessage) ==
  [utterance |-> utterance,
   intent |-> Str(<<"error">>),
   confidence |-> Num("0"),
   reasoning |-> Str(errorMessage)]

\* the catch block, lines 119-128
ErrorResult(utterance, errorMessage) ==
  [utterance |-> utterance,
   intent |-> Str(<<"error">>),
   confidence |-> Num("0"),
   reasoning |-> Str(<<"Error: ">> \o errorMessage)]

\* the return statement, lines 113-118; reading a property of null throws
ToResult(utterance, parsedResponse) ==
  IF parsedResponse.t = "null" THEN ErrorResult(utterance, MSG_TYPE_ERROR)
  ELSE [utterance |-> utterance,
        intent |-> OrElse(GetProperty(parsedResponse, KEY_intent), Str(<<"unknown">>)),
        confidence |-> OrElse(GetProperty(parsedResponse, KEY_confidence), Num("0")),
        reasoning |-> OrElse(GetProperty(parsedResponse, KEY_reasoning), Str(<<>>))]

\* response.match(/\{[\s\S]*\}/): greedy, from the first "{" to the last "}"
Opens(text) == {n \in 1..Len(text) : text[n] = "{"}
Closes(text) == {n \in 1..Len(text) : text[n] = "}"}
FirstOpen(text) == CHOOSE n \in Opens(text) : \A o \in Opens(text) : n <= o
LastClose(text) == CHOOSE n \in Closes(text) : \A o \in Closes(text) : o <= n
\* a lazy match: from the first "{" to the first "}" after it
JsonMatchLazy(text) ==
  SubSeq(text, FirstOpen(text),
         CHOOSE n \in Closes(text) :
           n > FirstOpen(text)
           /\ \A o \in Closes(text) : o > FirstOpen(text) => n <= o)

HasJsonMatch(text) ==
  Opens(text) # {} /\ Closes(text) # {} /\ FirstOpen(text) < LastClose(text)
JsonMatch(text) == SubSeq(text, FirstOpen(text), LastClose(text))

\* lines 99-118 on the reply text (a string value, or undefined when
\* content[0] has no text: trim and match then both throw a TypeError)
InterpretResponse(utterance, response) ==
  IF response.t # "string" THEN ErrorResult(utterance, MSG_TYPE_ERROR)
  ELSE With(JSONParse(Trim(response.s)), LAMBDA direct :
         IF direct.ok THEN With(direct.val, LAMBDA v : ToResult(utterance, v))
         ELSE IF HasJsonMatch(response.s)
         THEN With(JSONParse(JsonMatch(response.s)), LAMBDA inner :
                IF inner.ok THEN With(inner.val, LAMBDA v : ToResult(utterance, v))
                ELSE ErrorResult(utterance, MSG_SYNTAX_ERROR))
         ELSE ErrorResult(utterance, MSG_INVALID_FORMAT))

\* whether the call takes the fetch branch and gets past the key check
\* (lines 65-76)
SendsRequest(cfg, claude) == ~claude /\ cfg.apiKey # <<>>

\* the body of the POST to /api/classify, lines 81-84
RequestBody(cfg, utterance) ==
  [prompt |-> FullPrompt(cfg, utterance), apiKey |-> cfg.apiKey]

\* apiResponse.ok
StatusOk(status) == status >= 200 /\ status <= 299

\* the message without the body text
ApiErrorMessageNoBody(status, errorData) == <<"API Error: ", ToString(status)>>

\* `API Error: ${apiResponse.status} - ${errorData}`, line 92
ApiErrorMessage(status, errorData) ==
  <<"API Error: ", ToString(status), " - ">> \o errorData

\* lines 95-96 on a success body.  data: whether the body is JSON, whether
\* it has a content array, and the text property of each of its elements
DataText(utterance, data) ==
  IF ~data.json THEN ErrorResult(utterance, MSG_SYNTAX_ERROR)
  ELSE IF ~data.hasContent \/ data.content = <<>>
  THEN ErrorResult(utterance, MSG_TYPE_ERROR)
  ELSE InterpretResponse(utterance, data.content[1])

\* The result classifyWithClaude returns, given how the round trip ended.
\* outcome.kind: "none" (no round trip was started), "resolved" / "rejected"
\* (window.claude.complete), "failed" (fetch rejected), "response" (fetch
\* resolved with a status, a body text and its decoding)
ClassifyResult(cfg, claude, utterance, outcome) ==
  IF claude
  THEN IF outcome.kind = "resolved"
       THEN InterpretResponse(utterance, Str(outcome.text))
       ELSE ErrorResult(utterance,
                        IF outcome.isError THEN outcome.message ELSE MSG_UNKNOWN)
  ELSE IF cfg.apiKey = <<>> THEN ErrorResult(utterance, MSG_NO_KEY)
  ELSE IF outcome.kind = "failed" THEN ErrorResult(utterance, MSG_FETCH_FAILED)
  ELSE IF ~StatusOk(outcome.status)
  THEN ErrorResult(utterance, ApiErrorMessage(outcome.status, outcome.body))
  ELSE DataText(utterance, outcome.data)

-----------------------------------------------------------------------------
(* The client: IntentClassifierApp, App.tsx lines 41-226 *)

\* bounds of the client model
MaxHistory == 2

API_KEY == <<"sk-ant-api03-key">>
CONTEXT_DEFAULT == <<"general conversation">>
CONTEXT_OTHER == <<"retirement and finances">>
TEMPLATE_OTHER == <<"Classify for ", "{", "CONTEXT", "}", ".">>
HELLO == <<"h", "e", "l", "l", "o">>
WORLD == <<"w", "o", "r", "l", "d">>

ApiKeys == {<<>>, API_KEY}
Contexts == {CONTEXT_DEFAULT, CONTEXT_OTHER}
Templates == {DEFAULT_SYSTEM_PROMPT, TEMPLATE_OTHER}
SingleInputs == {HELLO}

\* the files the user picks: name and content
FILE_CSV == [name |-> <<"d", ".", "c", "s", "v">>,
             content |-> WORD_utterance \o <<"\n">> \o HELLO \o <<"\n">>
                         \o WORLD \o <<"\n">>]
FILE_TXT == [name |-> <<"d", ".", "t", "x", "t">>, content |-> WORLD \o <<"\n">>]
FILE_EMPTY == [name |-> <<"d", ".", "t", "x", "t">>, content |-> <<"\n">>]
PickedFiles == {FILE_CSV, FILE_TXT, FILE_EMPTY}

\* a reply that follows the prompt's instructions, and one that does not
REPLY_GOOD ==
  <<"{", "\"", "intent", "\"", ":", "\"", "greeting", "\"", ",",
    "\"", "confidence", "\"", ":", "0.9", ",",
    "\"", "reasoning", "\"", ":", "\"", "says hello", "\"", "}">>
REPLY_PROSE == <<"I cannot classify this.">>

DATA_GOOD == [json |-> TRUE, hasContent |-> TRUE, content |-> <<Str(REPLY_GOOD)>>]
DATA_NO_CONTENT == [json |-> TRUE, hasContent |-> FALSE, content |-> <<>>]
DATA_NO_TEXT == [json |-> TRUE, hasContent |-> TRUE, content |-> <<Undefined>>]
DATA_EMPTY == [json |-> TRUE, hasContent |-> TRUE, content |-> <<>>]
DATA_NOT_JSON == [json |-> FALSE, hasContent |-> FALSE, content |-> <<>>]
BODY_OVERLOADED == <<"{", "\"", "error", "\"", ":", "\"", "Overloaded", "\"", "}">>

Resolved(text) ==
  [kind |-> "resolved", text |-> text, isError |-> FALSE, message |-> <<>>,
   status |-> 0, body |-> <<>>, data |-> DATA_NOT_JSON]
Rejected(isError, message) ==
  [kind |-> "rejected", text |-> <<>>, isError |-> isError, message |-> message,
   status |-> 0, body |-> <<>>, data |-> DATA_NOT_JSON]
FetchFailed ==
  [kind |-> "failed", text |-> <<>>, isError |-> TRUE, message |-> <<>>,
   status |-> 0, body |-> <<>>, data |-> DATA_NOT_JSON]
Response(status, body, data) ==
  [kind |-> "response", text |-> <<>>, isError |-> FALSE, message |-> <<>>,
   status |-> status, body |-> body, data |-> data]
NoRoundTrip ==
  [kind |-> "none", text |-> <<>>, isError |-> FALSE, message |-> <<>>,
   status |-> 0, body |-> <<>>, data |-> DATA_NOT_JSON]

\* how a round trip can end, by the branch the call took
OutcomesOf(cfg, claude, replies, rejections, resps) ==
  IF claude THEN {Resolved(t) : t \in replies} \cup rejections
  ELSE IF cfg.apiKey = <<>> THEN {NoRoundTrip}
  ELSE resps

\* the ends of a round trip the client model draws from
ClientOutcomes(cfg, claude) ==
  OutcomesOf(cfg, claude, {REPLY_GOOD, REPLY_PROSE}, {Rejected(TRUE, <<"overloaded">>)},
             {Response(200, <<>>, DATA_GOOD), Response(500, BODY_OVERLOADED, DATA_NOT_JSON)})

\* state after construction, lines 42-53
ClientInit ==
  /\ config = [apiKey |-> <<>>, context |-> CONTEXT_DEFAULT,
               systemPrompt |-> DEFAULT_SYSTEM_PROMPT]
  /\ singleUtterance = <<>>
  /\ results = <<>>
  /\ loading = FALSE
  /\ uploadedData = <<>>
  /\ batchProgress = [current |-> 0, total |-> 0]
  /\ pc = "idle"
  /\ closure = None
  /\ i = 0
  /\ batchResults = <<>>
  /\ outstanding = <<>>

\* what a handler created by the current render sees of the state
Render ==
  [config |-> config, results |-> results, uploadedData |-> uploadedData,
   singleUtterance |-> singleUtterance]

\* classifyWithClaude up to its first await: the round trip it starts, if any
Issued(pending, cfg, claude, utterance) ==
  IF claude
  THEN Append(pending, [via |-> "claude",
                        body |-> [prompt |-> FullPrompt(cfg, utterance), apiKey |-> <<>>]])
  ELSE IF SendsRequest(cfg, claude)
  THEN Append(pending, [via |-> "relay", body |-> RequestBody(cfg, utterance)])
  ELSE pending

\* a round trip that is never taken off the list
StillPending(pending) == pending

\* the round trip ends
Settled(pending) == IF pending = <<>> THEN pending ELSE Tail(pending)

\* a push that keeps only the successes
BatchPushOnSuccess(list, result) ==
  IF result.intent = Str(<<"error">>) THEN list ELSE Append(list, result)

\* batchResults.push(result), line 159
BatchPush(list, result) == Append(list, result)

\* setResults([...batchResults, ...results]), line 174
BatchHistory(batch, seen) == batch \o seen.results

\* setResults([result, ...results]), line 137
SingleHistory(result, seen) == <<result>> \o seen.results

\* setBatchProgress({current: i + 1, total: uploadedData.length}), line 155
IterationProgress(index, seen) ==
  [current |-> index + 1, total |-> Len(seen.uploadedData)]

relayAtRest == UNCHANGED <<relayVars, pureVars>>

\* the configuration panel: onChange of the three inputs, lines 263, 279, 299
SetApiKey ==
  /\ \E k \in ApiKeys : config' = [config EXCEPT !.apiKey = k]
  /\ UNCHANGED <<singleUtterance, results, loading, uploadedData, batchProgress,
                 hasClaude, pc, closure, i, batchResults, outstanding>>
  /\ relayAtRest

SetContext ==
  /\ \E c \in Contexts : config' = [config EXCEPT !.context = c]
  /\ UNCHANGED <<singleUtterance, results, loading, uploadedData, batchProgress,
                 hasClaude, pc, closure, i, batchResults, outstanding>>
  /\ relayAtRest

SetSystemPrompt ==
  /\ \E t \in Templates : config' = [config EXCEPT !.systemPrompt = t]
  /\ UNCHANGED <<singleUtterance, results, loading, uploadedData, batchProgress,
                 hasClaude, pc, closure, i, batchResults, outstanding>>
  /\ relayAtRest

\* resetSystemPrompt, lines 220-222
ResetSystemPrompt ==
  /\ config' = [config EXCEPT !.systemPrompt = DEFAULT_SYSTEM_PROMPT]
  /\ UNCHANGED <<singleUtterance, results, loading, uploadedData, batchProgress,
                 hasClaude, pc, closure, i, batchResults, outstanding>>
  /\ relayAtRest

\* onChange of the single-utterance textarea, line 320
TypeUtterance ==
  /\ \E u \in SingleInputs : singleUtterance' = u
  /\ UNCHANGED <<config, results, loading, uploadedData, batchProgress,
                 hasClaude, pc, closure, i, batchResults, outstanding>>
  /\ relayAtRest

\* handleFileUpload and the reader.onload it registers, lines 180-203
HandleFileUpload ==
  /\ \E f \in PickedFiles : uploadedData' = ParseUpload(f.name, f.content)
  /\ UNCHANGED <<config, singleUtterance, results, loading, batchProgress,
                 hasClaude, pc, closure, i, batchResults, outstanding>>
  /\ relayAtRest

\* clearResults, lines 224-226; the button is rendered while there are results
ClearResults ==
  /\ results # <<>>
  /\ results' = <<>>
  /\ UNCHANGED <<config, singleUtterance, loading, uploadedData, batchProgress,
                 hasClaude, pc, closure, i, batchResults, outstanding>>
  /\ relayAtRest

\* handleSingleClassification up to its await, lines 131-136; the button is
\* disabled while loading or while the trimmed input is empty
StartSingle ==
  /\ pc = "idle"
  /\ ~loading
  /\ Trim(singleUtterance) # <<>>
  /\ Len(results) + 1 <= MaxHistory
  /\ loading' = TRUE
  /\ closure' = Render
  /\ outstanding' = Issued(outstanding, config, hasClaude, singleUtterance)
  /\ pc' = "single_await"
  /\ UNCHANGED <<config, singleUtterance, results, uploadedData, batchProgress,
                 hasClaude, i, batchResults>>
  /\ relayAtRest

\* handleSingleClassification after its await, lines 136-142
SingleReturns ==
  /\ pc = "single_await"
  /\ \E o \in ClientOutcomes(closure.config, hasClaude) :
       results' = SingleHistory(
         ClassifyResult(closure.config, hasClaude, closure.singleUtterance, o),
         closure)
  /\ singleUtterance' = <<>>
  /\ loading' = FALSE
  /\ outstanding' = Settled(outstanding)
  /\ closure' = None
  /\ pc' = "idle"
  /\ UNCHANGED <<config, uploadedData, batchProgress, hasClaude, i, batchResults>>
  /\ relayAtRest

\* handleBatchClassification up to the first await, lines 145-158; the
\* progress written at line 150 is overwritten at line 155 before any render
StartBatch ==
  /\ pc = "idle"
  /\ ~loading
  /\ uploadedData # <<>>
  /\ Len(results) + Len(uploadedData) <= MaxHistory
  /\ loading' = TRUE
  /\ closure' = Render
  /\ batchResults' = <<>>
  /\ i' = 0
  /\ batchProgress' = IterationProgress(0, Render)
  /\ outstanding' = Issued(outstanding, config, hasClaude, uploadedData[1])
  /\ pc' = "batch_await"
  /\ UNCHANGED <<config, singleUtterance, results, uploadedData, hasClaude>>
  /\ relayAtRest

\* the awaited classifyWithClaude returns: lines 158-162, up to the delay
ItemReturns ==
  /\ pc = "batch_await"
  /\ \E o \in ClientOutcomes(closure.config, hasClaude) :
       batchResults' = BatchPush(batchResults,
         ClassifyResult(closure.config, hasClaude, closure.uploadedData[i + 1], o))
  /\ outstanding' = Settled(outstanding)
  /\ pc' = "batch_delay"
  /\ UNCHANGED <<config, singleUtterance, results, loading, uploadedData,
                 batchProgress, hasClaude, closure, i>>
  /\ relayAtRest

\* the 500 ms timer fires and the loop goes on: lines 153-158 for the next item
NextItem ==
  /\ pc = "batch_delay"
  /\ i + 1 < Len(closure.uploadedData)
  /\ i' = i + 1
  /\ batchProgress' = IterationProgress(i + 1, closure)
  /\ outstanding' = Issued(outstanding, closure.config, hasClaude,
                           closure.uploadedData[i + 2])
  /\ pc' = "batch_await"
  /\ UNCHANGED <<config, singleUtterance, results, loading, uploadedData,
                 hasClaude, closure, batchResults>>
  /\ relayAtRest

\* the 500 ms timer fires after the last item: lines 174-177
FinishBatch ==
  /\ pc = "batch_delay"
  /\ i + 1 >= Len(closure.uploadedData)
  /\ results' = BatchHistory(batchResults, closure)
  /\ uploadedData' = <<>>
  /\ batchProgress' = [current |-> 0, total |-> 0]
  /\ loading' = FALSE
  /\ batchResults' = <<>>
  /\ i' = 0
  /\ closure' = None
  /\ pc' = "idle"
  /\ UNCHANGED <<config, singleUtterance, hasClaude, outstanding>>
  /\ relayAtRest

-----------------------------------------------------------------------------
(* The relay: api/classify.ts, and the two handlers of api/classify.js *)

\* classify.ts; classify.js lines 2-60; classify.js lines 62-139
Variants == {"ts", "jsCallerKey", "jsServerKey"}
CallerKeyVariants == {"ts", "jsCallerKey"}

SERVER_KEY == <<"sk-ant-server-key">>
PROMPT == <<"Classify: ", "\"", "hello", "\"">>
EnvKeys == {Undefined, Str(<<>>), Str(SERVER_KEY)}

\* req.body: absent, or an object whose prompt and apiKey may each be
\* missing, empty or set
Bodies ==
  [present : {TRUE}, prompt : {Undefined, Str(<<>>), Str(PROMPT)},
   apiKey : {Undefined, Str(<<>>), Str(API_KEY)}]
  \cup {[present |-> FALSE, prompt |-> Undefined, apiKey |-> Undefined]}
Requests == [method : {"OPTIONS", "POST", "GET"}, body : Bodies]

UPSTREAM_ERROR_TEXT ==
  <<"{", "\"", "type", "\"", ":", "\"", "error", "\"", "}">>
UpstreamTexts == {UPSTREAM_ERROR_TEXT, <<>>}
UpstreamFailures == {401, 529}

\* how the upstream fetch can end: rejected, or resolved with a status and
\* a body that text() / json() can or cannot read
UpstreamOutcomes ==
  {[kind |-> "failed", status |-> 0, text |-> <<>>, readable |-> FALSE, data |-> DATA_NOT_JSON]}
  \cup [kind : {"response"}, status : UpstreamFailures, text : UpstreamTexts,
        readable : BOOLEAN, data : {DATA_NOT_JSON}]
  \cup [kind : {"response"}, status : {200}, text : {<<>>}, readable : {TRUE},
        data : {DATA_GOOD, DATA_NO_CONTENT, DATA_NOT_JSON}]

\* the headers without the two Allow lists
CorsHeadersOriginOnly == {<<"Access-Control-Allow-Origin", "*">>}

\* the three res.setHeader calls every handler starts with
CorsHeaders ==
  {<<"Access-Control-Allow-Origin", "*">>,
   <<"Access-Control-Allow-Methods", "POST, OPTIONS">>,
   <<"Access-Control-Allow-Headers", "Content-Type">>}

EndBody == [kind |-> "end", error |-> <<>>, data |-> DATA_NOT_JSON]
ErrorBody(message) == [kind |-> "error", error |-> message, data |-> DATA_NOT_JSON]
JsonBody(data) == [kind |-> "json", error |-> <<>>, data |-> data]

\* res.status(status).json(body) or .end(): the response leaves with the
\* headers set so far
Sent(headers, status, body) == [status |-> status, headers |-> headers, body |-> body]

\* the body of the POST to api.anthropic.com
UpstreamRequest(apiKey, prompt) ==
  [xApiKey |-> apiKey, model |-> "claude-3-sonnet-20240229", maxTokens |-> 1000,
   messages |-> <<[role |-> "user", content |-> prompt]>>]

\* the key the handler uses: the caller's, or the environment's
KeyOf(v, env, body) == IF v = "jsServerKey" THEN env ELSE body.apiKey

\* the status and message of a missing key
NoKeyStatus(v) == IF v = "jsServerKey" THEN 500 ELSE 400
NoKeyMessage(v) ==
  IF v = "jsServerKey" THEN <<"Server API key not configured">>
  ELSE <<"API key is required">>

\* whether the handler checks the prompt before the upstream call
ChecksPrompt(v) == v # "jsCallerKey"

\* `Claude API Error: ${response.status} - ${errorText}`
UpstreamErrorMessage(status, errorText) ==
  <<"Claude API Error: ", ToString(status), " - ">> \o errorText

\* an upstream non-success answered as a local fault
UpstreamErrorReplyAs500(headers, status, errorText) ==
  Sent(headers, 500, ErrorBody(UpstreamErrorMessage(status, errorText)))

\* the response to an upstream non-success whose body text was read
UpstreamErrorReply(headers, status, errorText) ==
  Sent(headers, status, ErrorBody(UpstreamErrorMessage(status, errorText)))

\* the catch block: error.message, which here is never empty
LocalFault(headers, message) == Sent(headers, 500, ErrorBody(message))

\* The handler from its entry to its first await or its response: what it
\* sends (respond) or which upstream call it makes (forward)
Entry(v, env, r) ==
  LET h == CorsHeaders
      key == KeyOf(v, env, r.body)
      reply(resp) == [respond |-> TRUE, response |-> resp, headers |-> h,
                      call |-> UpstreamRequest(Undefined, Undefined)]
  IN IF r.method = "OPTIONS" THEN reply(Sent(h, 200, EndBody))
     ELSE IF r.method # "POST"
     THEN reply(Sent(h, 405, ErrorBody(<<"Method not allowed">>)))
     ELSE IF ~r.body.present THEN reply(LocalFault(h, MSG_TYPE_ERROR))
     ELSE IF ~Truthy(key)
     THEN reply(Sent(h, NoKeyStatus(v), ErrorBody(NoKeyMessage(v))))
     ELSE IF ChecksPrompt(v) /\ ~Truthy(r.body.prompt)
     THEN reply(Sent(h, 400, ErrorBody(<<"Prompt is required">>)))
     ELSE [respond |-> FALSE, response |-> Sent(h, 0, EndBody), headers |-> h,
           call |-> UpstreamRequest(key, r.body.prompt)]

clientAtRest == UNCHANGED <<clientVars, pureVars>>

\* a request arrives and the handler runs to its first await or its response
Receive ==
  /\ rpc \in {"idle", "done"}
  /\ \E r \in Requests :
       LET e == Entry(variant, envKey, r)
       IN /\ req' = r
          /\ resHeaders' = e.headers
          /\ responses' = IF e.respond THEN <<e.response>> ELSE <<>>
          /\ upstream' = IF e.respond THEN <<>> ELSE <<e.call>>
          /\ rpc' = IF e.respond THEN "done" ELSE "fetching"
  /\ fetched' = None
  /\ UNCHANGED <<variant, envKey>>
  /\ clientAtRest

\* the upstream fetch settles: rejected (the catch block answers), or
\* resolved (the handler goes on to read the body)
FetchSettles ==
  /\ rpc = "fetching"
  /\ \E o \in UpstreamOutcomes :
       IF o.kind = "failed"
       THEN /\ responses' = Append(responses, LocalFault(resHeaders, MSG_FETCH_FAILED))
            /\ rpc' = "done"
            /\ fetched' = None
       ELSE /\ fetched' = o
            /\ rpc' = "reading"
            /\ UNCHANGED responses
  /\ UNCHANGED <<variant, envKey, req, resHeaders, upstream>>
  /\ clientAtRest

\* response.text() or response.json() settles and the handler answers
BodyRead ==
  /\ rpc = "reading"
  /\ responses' = Append(responses,
       IF ~StatusOk(fetched.status)
       THEN IF fetched.readable
            THEN UpstreamErrorReply(resHeaders, fetched.status, fetched.text)
            ELSE LocalFault(resHeaders, MSG_FETCH_FAILED)
       ELSE IF fetched.data.json THEN Sent(resHeaders, 200, JsonBody(fetched.data))
            ELSE LocalFault(resHeaders, MSG_SYNTAX_ERROR))
  /\ rpc' = "done"
  /\ UNCHANGED <<variant, envKey, req, resHeaders, upstream, fetched>>
  /\ clientAtRest

-----------------------------------------------------------------------------
(* Specifications *)

RelayInit ==
  /\ req = None
  /\ rpc = "idle"
  /\ resHeaders = {}
  /\ responses = <<>>
  /\ upstream = <<>>
  /\ fetched = None

\* the parts of the system a specification leaves alone
ClientIdle == ClientInit /\ hasClaude = FALSE
RelayIdle == RelayInit /\ variant = "ts" /\ envKey = Undefined
\* a function's result: not yet applied, or its value
NotApplied == [done |-> FALSE, value |-> <<>>]
Applied(v) == [done |-> TRUE, value |-> v]

PureIdle == arg = None /\ ret = NotApplied

\* all sequences over S of length at most n
SeqsUpTo(S, n) == UNION {[1..k -> S] : k \in 0..n}

\* ---- the client: a session of the application ----
Init == ClientInit /\ hasClaude \in BOOLEAN /\ RelayIdle /\ PureIdle

Next ==
  \/ SetApiKey \/ SetContext \/ SetSystemPrompt \/ ResetSystemPrompt
  \/ TypeUtterance \/ HandleFileUpload \/ ClearResults
  \/ StartSingle \/ SingleReturns
  \/ StartBatch \/ ItemReturns \/ NextItem \/ FinishBatch

Spec == Init /\ [][Next]_vars

\* ---- the relay: one deployment answering requests ----
RelaySpecInit ==
  ClientIdle /\ PureIdle /\ RelayInit /\ variant \in Variants /\ envKey \in EnvKeys

RelayNext == Receive \/ FetchSettles \/ BodyRead

RelaySpec == RelaySpecInit /\ [][RelayNext]_vars

\* ---- prompt construction applied to drawn templates and contexts ----
MaxTemplateLen == 4
MaxContextLen == 2

PromptTemplates == SeqsUpTo({"{", "CONTEXT", "}", "Classify "}, MaxTemplateLen)
PromptContexts == SeqsUpTo({"$", "&", "billing"}, MaxContextLen) \cup {PLACEHOLDER}
PromptUtterances == {HELLO, PLACEHOLDER}

PromptInit ==
  /\ ClientIdle /\ RelayIdle
  /\ arg \in [template : PromptTemplates, context : PromptContexts,
              utterance : PromptUtterances]
  /\ ret = NotApplied

\* classifyWithClaude builds its prompt, lines 56-59
BuildPrompt ==
  /\ ~ret.done
  /\ ret' = Applied(FullPrompt([apiKey |-> <<>>, context |-> arg.context,
                                systemPrompt |-> arg.template], arg.utterance))
  /\ UNCHANGED <<clientVars, relayVars, arg>>

PromptSpec == PromptInit /\ [][BuildPrompt]_vars

\* ---- file ingestion applied to drawn files ----
MaxLines == 3

\* a line of a file: its characters, what trimming leaves of it, and
\* whether it contains "utterance" or "text" in any letter case
FileLines ==
  {[raw |-> WORD_utterance, kept |-> WORD_utterance, header |-> TRUE],
   [raw |-> HELLO, kept |-> HELLO, header |-> FALSE],
   [raw |-> WORLD, kept |-> WORLD, header |-> FALSE],
   [raw |-> <<" ", "i", "d", ",", "T", "e", "X", "t", "\r">>,
    kept |-> <<"i", "d", ",", "T", "e", "X", "t">>, header |-> TRUE],
   [raw |-> <<" ", "\t">>, kept |-> <<>>, header |-> FALSE],
   [raw |-> <<>>, kept |-> <<>>, header |-> FALSE]}

FileNames ==
  {<<"d", ".", "c", "s", "v">>, <<"d", ".", "t", "x", "t">>,
   <<"d", ".", "C", "S", "V">>}

\* the text of a file with the given lines, with or without a final newline
RECURSIVE JoinLines(_)
JoinLines(ls) ==
  IF ls = <<>> THEN <<>>
  ELSE IF Len(ls) = 1 THEN ls[1].raw
  ELSE ls[1].raw \o <<"\n">> \o JoinLines(Tail(ls))

FileContent(ls, finalNewline) ==
  JoinLines(ls) \o (IF finalNewline THEN <<"\n">> ELSE <<>>)

IngestInit ==
  /\ ClientIdle /\ RelayIdle
  /\ arg \in [name : FileNames, lines : SeqsUpTo(FileLines, MaxLines),
              finalNewline : BOOLEAN]
  /\ ret = NotApplied

\* reader.onload on the picked file, lines 185-201
ReadFile ==
  /\ ~ret.done
  /\ ret' = Applied(ParseUpload(arg.name, FileContent(arg.lines, arg.finalNewline)))
  /\ UNCHANGED <<clientVars, relayVars, arg>>

IngestSpec == IngestInit /\ [][ReadFile]_vars

\* ---- reply interpretation applied to drawn reply texts ----
MaxReplyLen == 4

\* JSON.stringify of a string
EscapeAtom(a) ==
  CASE a = "\"" -> <<"\\", "\"">>
    [] a = "\\" -> <<"\\", "\\">>
    [] a = "\n" -> <<"\\", "n">>
    [] a = "\r" -> <<"\\", "r">>
    [] a = "\t" -> <<"\\", "t">>
    [] OTHER -> <<a>>

RECURSIVE Escape(_)
Escape(text) ==
  IF text = <<>> THEN <<>> ELSE EscapeAtom(Head(text)) \o Escape(Tail(text))

Quote(text) == <<"\"">> \o Escape(text) \o <<"\"">>

Member(key, value) ==
  Quote(key) \o <<":">> \o (IF value.t = "string" THEN Quote(value.s) ELSE value.s)

RECURSIVE JoinMembers(_)
JoinMembers(ms) ==
  IF ms = <<>> THEN <<>>
  ELSE IF Len(ms) = 1 THEN ms[1]
  ELSE ms[1] \o <<",">> \o JoinMembers(Tail(ms))

\* the canonical reply: JSON.stringify of an object with those of the three
\* fields that are present (not undefined)
CanonicalReply(intent, confidence, reasoning) ==
  <<"{">>
  \o JoinMembers(
       (IF intent.t = "undefined" THEN <<>> ELSE <<Member(KEY_intent, intent)>>)
       \o (IF confidence.t = "undefined" THEN <<>>
           ELSE <<Member(KEY_confidence, confidence)>>)
       \o (IF reasoning.t = "undefined" THEN <<>>
           ELSE <<Member(KEY_reasoning, reasoning)>>))
  \o <<"}">>

ReplyIntents == {Undefined, Str(<<>>), Str(<<"billing">>)}
ReplyConfidences == {Undefined, Num("0"), Num("0.9")}
ReplyReasonings ==
  {Undefined, Str(<<>>), Str(<<"x">>),
   Str(<<"asks about a ", "{", "bill", "}", " ", "\"", "now", "\"", "\\", "\n">>)}
\* what may precede the JSON: nothing, or prose without braces
ReplyProse == {<<>>, <<"Here you go: ">>, <<"Sure", ":", "\n", " ">>}

CanonicalArgs ==
  {[kind |-> "canonical", intent |-> n, confidence |-> c, reasoning |-> r,
    prose |-> p, text |-> p \o CanonicalReply(n, c, r)] :
     n \in ReplyIntents, c \in ReplyConfidences, r \in ReplyReasonings,
     p \in ReplyProse}

RawArgs ==
  {[kind |-> "raw", intent |-> Undefined, confidence |-> Undefined,
    reasoning |-> Undefined, prose |-> <<>>, text |-> t] :
     t \in SeqsUpTo({"{", "}", "\"", ":", "x", "1"}, MaxReplyLen)}

ParseInit ==
  /\ ClientIdle /\ RelayIdle
  /\ arg \in CanonicalArgs \cup RawArgs
  /\ ret = NotApplied

\* classifyWithClaude from the reply text on, lines 99-128
Interpret ==
  /\ ~ret.done
  /\ ret' = Applied(InterpretResponse(HELLO, Str(arg.text)))
  /\ UNCHANGED <<clientVars, relayVars, arg>>

ParseSpec == ParseInit /\ [][Interpret]_vars

\* ---- one call of classifyWithClaude, over every way its round trip ends ----
AllReplies ==
  {REPLY_GOOD, REPLY_PROSE, <<"Here you go: ">> \o REPLY_GOOD,
   <<"{", "intent", ":", "billing", "}">>, <<"null">>}
\* the replies among them that neither parse nor hold a parseable {...} span
UnparseableReplies == {REPLY_PROSE, <<"{", "intent", ":", "billing", "}">>}

AllOutcomes(cfg, claude) ==
  IF claude
  THEN {Resolved(t) : t \in AllReplies}
       \cup {Rejected(TRUE, <<"overloaded">>), Rejected(FALSE, <<>>)}
  ELSE IF cfg.apiKey = <<>> THEN {NoRoundTrip}
  ELSE {FetchFailed}
       \cup {Response(s, b, DATA_NOT_JSON) :
               s \in {400, 401, 500}, b \in {BODY_OVERLOADED, <<>>}}
       \cup {Response(200, <<>>, d) :
               d \in {DATA_NO_CONTENT, DATA_NO_TEXT, DATA_EMPTY, DATA_NOT_JSON}}
       \cup {Response(200, <<>>,
                      [json |-> TRUE, hasContent |-> TRUE, content |-> <<Str(t)>>]) :
               t \in AllReplies}

ClassifyInit ==
  /\ ClientInit /\ RelayIdle
  /\ hasClaude \in BOOLEAN
  /\ \E k \in ApiKeys, c \in Contexts, u \in {HELLO, WORLD} :
       arg \in [cfg : {[apiKey |-> k, context |-> c, systemPrompt |-> DEFAULT_SYSTEM_PROMPT]},
                utterance : {u},
                outcome : AllOutcomes([apiKey |-> k], hasClaude)]
  /\ ret = NotApplied

\* classifyWithClaude(arg.utterance) runs to its first await, lines 55-76
CallClassify ==
  /\ pc = "idle" /\ ret = NotApplied
  /\ outstanding' = Issued(outstanding, arg.cfg, hasClaude, arg.utterance)
  /\ pc' = "call"
  /\ UNCHANGED <<config, singleUtterance, results, loading, uploadedData,
                 batchProgress, hasClaude, closure, i, batchResults>>
  /\ UNCHANGED <<relayVars, pureVars>>

\* the round trip ends as arg.outcome says and the call returns, lines 87-128
ReturnClassify ==
  /\ pc = "call"
  /\ ret' = Applied(ClassifyResult(arg.cfg, hasClaude, arg.utterance, arg.outcome))
  /\ outstanding' = Settled(outstanding)
  /\ pc' = "idle"
  /\ UNCHANGED <<config, singleUtterance, results, loading, uploadedData,
                 batchProgress, hasClaude, closure, i, batchResults>>
  /\ UNCHANGED <<relayVars, arg>>

ClassifySpec == ClassifyInit /\ [][CallClassify \/ ReturnClassify]_vars

-----------------------------------------------------------------------------
(* Claims *)

ERROR_INTENT == Str(<<"error">>)

\* C1: every item of a batch yields exactly one result, in input order,
\* whatever its outcome: when an item's call returns, batchResults grows by
\* one result that carries that item's utterance and keeps what it held; and
\* when the batch ends, the N results are the first N of the history and the
\* k-th carries the k-th utterance.
C1_OneResultPerItem ==
  [][/\ (pc = "batch_await" /\ pc' = "batch_delay") =>
          /\ Len(batchResults') = i + 1
          /\ SubSeq(batchResults', 1, i) = batchResults
          /\ batchResults'[i + 1].utterance = closure.uploadedData[i + 1]
     /\ (pc = "batch_delay" /\ pc' = "idle") =>
          /\ Len(batchResults) = Len(closure.uploadedData)
          /\ Len(results') >= Len(batchResults)
          /\ \A k \in 1..Len(closure.uploadedData) :
               /\ results'[k] = batchResults[k]
               /\ results'[k].utterance = closure.uploadedData[k]]_vars

\* a batch of two whose first item failed and whose second succeeded
C1_Witness ==
  /\ pc = "batch_delay"
  /\ Len(closure.uploadedData) = 2
  /\ Len(batchResults) = 2
  /\ batchResults[1].intent = ERROR_INTENT
  /\ batchResults[2].intent # ERROR_INTENT

\* the ways of failing C2 lists
C2_NoKey == ~hasClaude /\ arg.cfg.apiKey = <<>>
C2_NonSuccess ==
  arg.outcome.kind = "response" /\ arg.outcome.status \notin 200..299
C2_NoText ==
  /\ arg.outcome.kind = "response"
  /\ arg.outcome.status = 200
  /\ arg.outcome.data \in {DATA_NO_CONTENT, DATA_NO_TEXT, DATA_EMPTY}
C2_Unparseable ==
  \/ arg.outcome.kind = "resolved" /\ arg.outcome.text \in UnparseableReplies
  \/ /\ arg.outcome.kind = "response"
     /\ arg.outcome.status = 200
     /\ arg.outcome.data.json /\ arg.outcome.data.content # <<>>
     /\ arg.outcome.data.content[1].t = "string"
     /\ arg.outcome.data.content[1].s \in UnparseableReplies

\* C2: classifyWithClaude returns a result, never an exception: with no
\* completion capability and no key, after a non-success status, after a
\* success body without content[0].text and after an unparseable reply the
\* result carries the input utterance, intent "error" and confidence 0;
\* without a key no request is outstanding while the call runs; after a
\* non-success status the reasoning holds the status code and the body text.
C2_FailuresBecomeErrorResults ==
  /\ (pc = "call" /\ C2_NoKey) => outstanding = <<>>
  /\ (ret.done /\ (C2_NoKey \/ C2_NonSuccess \/ C2_NoText \/ C2_Unparseable)) =>
       /\ ret.value.utterance = arg.utterance
       /\ ret.value.intent = ERROR_INTENT
       /\ ret.value.confidence = Num("0")
  /\ (ret.done /\ ~C2_NoKey /\ C2_NonSuccess) =>
       /\ Includes(ret.value.reasoning.s, <<ToString(arg.outcome.status)>>)
       /\ Includes(ret.value.reasoning.s, arg.outcome.body)

\* the relay answered 500 with a body and the call returned
C2_Witness ==
  /\ ret.done
  /\ ~hasClaude /\ arg.cfg.apiKey # <<>>
  /\ arg.outcome.kind = "response" /\ arg.outcome.status = 500
  /\ arg.outcome.body = BODY_OVERLOADED
  /\ ret.value.intent = ERROR_INTENT
  /\ ret.value.reasoning
       = Str(<<"Error: ", "API Error: ", "500", " - ">> \o BODY_OVERLOADED)

\* C3: in every variant a POST whose body lacks a prompt, and in the
\* caller-supplies-key variants a POST whose body lacks an apiKey, makes no
\* upstream call and is answered 400, with "API key is required" for the
\* missing key.
C3_MissingInputRejected ==
  LET noPrompt == req.body.prompt.t = "undefined"
      noKey == variant \in CallerKeyVariants /\ req.body.apiKey.t = "undefined"
  IN (rpc # "idle" /\ req.method = "POST" /\ req.body.present
        /\ (noPrompt \/ noKey)) =>
       /\ upstream = <<>>
       /\ responses # <<>> =>
            /\ responses[1].status = 400
            /\ noKey => responses[1].body.error = <<"API key is required">>

\* C4: every response carries the three CORS headers, and an OPTIONS request
\* is answered at once with status 200.
C4_CorsOnEveryResponse ==
  /\ \A k \in 1..Len(responses) :
       /\ <<"Access-Control-Allow-Origin", "*">> \in responses[k].headers
       /\ <<"Access-Control-Allow-Methods", "POST, OPTIONS">> \in responses[k].headers
       /\ <<"Access-Control-Allow-Headers", "Content-Type">> \in responses[k].headers
  /\ (rpc # "idle" /\ req.method = "OPTIONS") =>
       /\ responses # <<>>
       /\ responses[1].status = 200

\* a mirrored upstream failure has left with its headers
C4_Witness ==
  /\ rpc = "done"
  /\ req.method = "POST"
  /\ Len(responses) = 1
  /\ responses[1].status = 529
  /\ Cardinality(responses[1].headers) = 3

\* an upstream non-success whose body text the handler has read and answered
C5_UpstreamFailed ==
  /\ rpc = "done"
  /\ fetched # None
  /\ ~StatusOk(fetched.status)
  /\ fetched.readable

\* C5 as stated: the response mirrors the upstream status and its error is
\* exactly the upstream body text.
C5_ErrorIsUpstreamText ==
  C5_UpstreamFailed =>
    /\ Len(responses) = 1
    /\ responses[1].status = fetched.status
    /\ responses[1].body.error = fetched.text

\* C5 as amended: the response mirrors the upstream status and its error is
\* "Claude API Error: <status> - " followed by the upstream body text.
C5_ErrorEmbedsUpstreamText ==
  C5_UpstreamFailed =>
    /\ Len(responses) = 1
    /\ responses[1].status = fetched.status
    /\ responses[1].body.kind = "error"
    /\ responses[1].body.error
         = <<"Claude API Error: ", ToString(fetched.status), " - ">> \o fetched.text

\* an upstream 401 with a body was answered 401
C5_Witness ==
  /\ C5_UpstreamFailed
  /\ fetched.status = 401
  /\ fetched.text = UPSTREAM_ERROR_TEXT
  /\ responses[1].status = 401

\* C6: when a batch completes, the history becomes the batch's results
\* followed by the history as it stood just before completion, whatever the
\* user did while the batch ran; and while the batch runs the history gains
\* nothing.
C6_PrependsToCurrentHistory ==
  [][/\ (pc = "batch_delay" /\ pc' = "idle") =>
          results' = batchResults \o results
     /\ (pc \in {"batch_await", "batch_delay"} /\ pc' # "idle") =>
          results' \in {results, <<>>}]_vars

\* the reply texts built from a classification object
C7_Canonical == ret.done /\ arg.kind = "canonical"
C7_Default(field, default) ==
  arg[field].t = "undefined" => ret.value[field] = default

\* C7 as stated: parsing a canonical reply, alone or after prose without
\* braces, gives back each field that is present, and the default for each
\* field that is absent.
C7_PresentFieldsKept ==
  C7_Canonical =>
    /\ \A f \in {"intent", "confidence", "reasoning"} :
         arg[f].t # "undefined" => ret.value[f] = arg[f]
    /\ C7_Default("intent", Str(<<"unknown">>))
    /\ C7_Default("confidence", Num("0"))
    /\ C7_Default("reasoning", Str(<<>>))

\* C7 as amended: parsing a canonical reply, alone or after prose without
\* braces, gives back the confidence and the reasoning that are present and
\* the intent that is present and not empty; an intent that is absent or
\* empty becomes "unknown", an absent confidence 0, an absent reasoning "".
C7_TruthyFieldsKept ==
  C7_Canonical =>
    /\ \A f \in {"confidence", "reasoning"} :
         arg[f].t # "undefined" => ret.value[f] = arg[f]
    /\ (arg.intent.t = "string" /\ arg.intent.s # <<>>) =>
         ret.value.intent = arg.intent
    /\ (arg.intent.t = "string" /\ arg.intent.s = <<>>) =>
         ret.value.intent = Str(<<"unknown">>)
    /\ C7_Default("intent", Str(<<"unknown">>))
    /\ C7_Default("confidence", Num("0"))
    /\ C7_Default("reasoning", Str(<<>>))

\* a reply after prose, its reasoning full of braces, quotes and escapes
C7_Witness ==
  /\ C7_Canonical
  /\ arg.prose = <<"Here you go: ">>
  /\ arg.intent = Str(<<"billing">>)
  /\ arg.confidence = Num("0.9")
  /\ Includes(arg.reasoning.s, <<"}">>)
  /\ ret.value.intent = Str(<<"billing">>)
  /\ ret.value.confidence = Num("0.9")
  /\ ret.value.reasoning = arg.reasoning

\* the reply texts C8 is about
C8_HasSpan ==
  \E a, b \in 1..Len(arg.text) :
    a < b /\ arg.text[a] = "{" /\ arg.text[b] = "}"
C8_DirectParseFails == ~JSONParse(Trim(arg.text)).ok
C8_SpanFails == C8_HasSpan /\ ~JSONParse(JsonMatch(arg.text)).ok

\* C8 as stated: a reply that fails the direct parse and holds no {...}
\* span, or a span that does not parse, gives intent "error", confidence 0
\* and the reasoning "Invalid response format".
C8_ReasoningIsFixedMessage ==
  (ret.done /\ C8_DirectParseFails /\ (~C8_HasSpan \/ C8_SpanFails)) =>
    /\ ret.value.intent = ERROR_INTENT
    /\ ret.value.confidence = Num("0")
    /\ ret.value.reasoning = Str(<<"Invalid response format">>)

\* C8 as amended: such a reply gives intent "error" and confidence 0; the
\* reasoning is "Error: Invalid response format" when there is no span and
\* "Error: " followed by the JSON parser's message when the span does not
\* parse.
C8_ReasoningIsPrefixedMessage ==
  (ret.done /\ C8_DirectParseFails /\ (~C8_HasSpan \/ C8_SpanFails)) =>
    /\ ret.value.utterance = HELLO
    /\ ret.value.intent = ERROR_INTENT
    /\ ret.value.confidence = Num("0")
    /\ ~C8_HasSpan =>
         ret.value.reasoning = Str(<<"Error: ", "Invalid response format">>)
    /\ C8_SpanFails =>
         ret.value.reasoning = Str(<<"Error: ", "<SyntaxError.message>">>)

\* a reply whose {...} span is not JSON
C8_Witness ==
  /\ ret.done
  /\ arg.text = <<"x", "{", "x", "}">>
  /\ ret.value.intent = ERROR_INTENT
  /\ ret.value.reasoning = Str(<<"Error: ", "<SyntaxError.message>">>)

\* C9: for a template that contains {CONTEXT}, the prompt contains the
\* context string and no {CONTEXT}.
C9_ContextReplacesPlaceholder ==
  (ret.done /\ Includes(arg.template, <<"{", "CONTEXT", "}">>)) =>
    /\ Includes(ret.value, arg.context)
    /\ ~Includes(ret.value, <<"{", "CONTEXT", "}">>)

\* the trimmed non-blank lines of the drawn file, in file order
C10_Kept ==
  LET nonBlank == SelectSeq(arg.lines, LAMBDA l : l.kept # <<>>)
  IN [k \in 1..Len(nonBlank) |-> nonBlank[k].kept]
C10_HeaderFirst ==
  LET nonBlank == SelectSeq(arg.lines, LAMBDA l : l.kept # <<>>)
  IN nonBlank # <<>> /\ nonBlank[1].header
C10_IsCsv ==
  /\ Len(arg.name) >= 4
  /\ SubSeq(arg.name, Len(arg.name) - 3, Len(arg.name)) = <<".", "c", "s", "v">>

\* C10 as stated: whatever the file is called, the ingestion list is the
\* trimmed non-blank lines in file order, without the first when and only
\* when it contains "utterance" or "text" in any letter case.
C10_HeaderDroppedAlways ==
  ret.done =>
    ret.value = (IF C10_HeaderFirst THEN Tail(C10_Kept) ELSE C10_Kept)

\* C10 as amended: the ingestion list is the trimmed non-blank lines in file
\* order; the first of them is dropped when and only when the file name ends
\* in ".csv" and that line contains "utterance" or "text" in any letter case.
C10_HeaderDroppedFromCsv ==
  ret.done =>
    ret.value = (IF C10_IsCsv /\ C10_HeaderFirst THEN Tail(C10_Kept) ELSE C10_Kept)

\* "utterance\nhello\nworld\n" uploaded as d.csv
C10_Witness ==
  /\ ret.done
  /\ arg.name = <<"d", ".", "c", "s", "v">>
  /\ Len(arg.lines) = 3
  /\ arg.lines[1].raw = <<"u", "t", "t", "e", "r", "a", "n", "c", "e">>
  /\ arg.lines[2].raw = <<"h", "e", "l", "l", "o">>
  /\ arg.lines[3].raw = <<"w", "o", "r", "l", "d">>
  /\ arg.finalNewline
  /\ ret.value = <<<<"h", "e", "l", "l", "o">>, <<"w", "o", "r", "l", "d">>>>

\* whether a batch is running
C11_InBatch == pc \in {"batch_await", "batch_delay"}

\* C11: in a batch of N utterances the progress reads (i, N) while item i is
\* in flight and (i + 1, N) once its classification has completed; it is
\* (0, 0) when no batch runs; and always 0 <= current <= total.
C11_ProgressFollowsCompletion ==
  /\ batchProgress.current \in 0..batchProgress.total
  /\ pc = "batch_await" =>
       batchProgress = [current |-> i, total |-> Len(closure.uploadedData)]
  /\ pc = "batch_delay" =>
       batchProgress = [current |-> i + 1, total |-> Len(closure.uploadedData)]
  /\ ~C11_InBatch => batchProgress = [current |-> 0, total |-> 0]

\* the text every prompt ends with, for the batch's item at index k (from 0)
C12_SuffixOfItem(list, k) ==
  <<"Utterance to classify: ", "\"">> \o list[k + 1] \o <<"\"">>

\* C12: in a batch at most one classification is outstanding; a request is
\* issued for the item at index i only when the results of the i items before
\* it are recorded and, after the first, when a delay step has elapsed; every
\* item's return, result or error result, is followed by a delay step, and
\* the batch completes only from the delay step after its last item.
C12_OneRequestAtATime ==
  /\ [](Len(outstanding) <= 1)
  /\ [][/\ (pc' = "batch_await" /\ pc # "batch_await") =>
             /\ pc \in {"idle", "batch_delay"}
             /\ i' = (IF pc = "idle" THEN 0 ELSE i + 1)
             /\ Len(batchResults') = i'
             /\ outstanding = <<>>
             /\ outstanding' # <<>> =>
                  EndsWith(outstanding'[1].body.prompt,
                           C12_SuffixOfItem(closure'.uploadedData, i'))
        /\ (pc = "batch_await" /\ pc' # "batch_await") =>
             /\ pc' = "batch_delay"
             /\ Len(batchResults') = i + 1
             /\ outstanding' = <<>>
        /\ (C11_InBatch /\ pc' = "idle") =>
             /\ pc = "batch_delay"
             /\ Len(batchResults) = Len(closure.uploadedData)]_vars

\* the second item of a batch is in flight after the first gave an error
C12_Witness ==
  /\ pc = "batch_await"
  /\ i = 1
  /\ Len(batchResults) = 1
  /\ batchResults[1].intent = ERROR_INTENT
  /\ Len(outstanding) = 1
  /\ EndsWith(outstanding[1].body.prompt, C12_SuffixOfItem(closure.uploadedData, 1))

\* C13: a call made while a batch runs uses the configuration of that
\* moment: the request that leaves for an item (or the absence of one) is
\* what the current apiKey, context and template give; and no step of a
\* handler changes the configuration.
C13_CallUsesCurrentConfig ==
  [][/\ (pc = "batch_delay" /\ pc' = "batch_await") =>
          outstanding'
            = Issued(outstanding, config, hasClaude, closure.uploadedData[i' + 1])
     /\ pc' # pc => config' = config]_vars

\* a value that passes an `if (!v)` test
C14_Given(v) == v.t = "string" /\ v.s # <<>>
\* a POST that carries what the handler needs: a prompt, and a key from the
\* place the variant takes it from
C14_ValidPost ==
  /\ req.method = "POST"
  /\ req.body.present
  /\ C14_Given(req.body.prompt)
  /\ C14_Given(IF variant = "jsServerKey" THEN envKey ELSE req.body.apiKey)

\* C14: the relay answers every request once and calls upstream at most
\* once: never for OPTIONS, for another method than POST (answered 405) or
\* for a POST that fails validation; once for a valid POST, which ends in a
\* 200 with the upstream JSON, the upstream's non-success status, or a 500
\* with the fault's message.
C14_OneResponseOneCall ==
  rpc # "idle" =>
    /\ Len(responses) <= 1
    /\ Len(upstream) <= 1
    /\ rpc = "done" => Len(responses) = 1
    /\ req.method = "OPTIONS" => upstream = <<>>
    /\ req.method \notin {"OPTIONS", "POST"} =>
         upstream = <<>> /\ responses[1].status = 405
    /\ (req.method = "POST" /\ ~C14_ValidPost) => upstream = <<>>
    /\ C14_ValidPost =>
         /\ Len(upstream) = 1
         /\ rpc = "done" =>
              \/ /\ responses[1].status = 200
                 /\ responses[1].body.kind = "json"
                 /\ fetched # None /\ fetched.status = 200
                 /\ responses[1].body.data = fetched.data
              \/ /\ fetched # None /\ fetched.status \notin 200..299
                 /\ responses[1].status = fetched.status
              \/ /\ responses[1].status = 500
                 /\ responses[1].body.kind = "error"
                 /\ responses[1].body.error # <<>>

=============================================================================
